---- MODULE Spec2Model ----
\* Model of the streaming chat renderer of src/script.js (class Chatbot):
\* renderMarkdown, streamToMessage, finalizeStreamingMessage, and the request
\* life cycle sendMessage -> callNvidiaAPI -> finalizeStreamingMessage with the
\* user events that can interleave with it (stop button, thought toggle).
\*
\* Text is a sequence of tokens; a token is one plain-text run or one tag:
\*   txt    plain text                     bad    a tag outside the allow-list
\*   open   <think [start="S"] [duration="D"]>    close  </think>
\*   aopen  <thinking>                     aclose </thinking>
\* Chunk boundaries fall between tokens.
EXTENDS Integers, Sequences, FiniteSets, TLC

\* ---------------------------------------------------------------- bounds
MaxEvents == 3
MaxRequests == 2
MaxNow == 500
MaxPieces == 3
MaxTagLen == 3
MaxChats == 3
MaxClears == 1
NumServers == 2

\* attribute values: NoAttr for an attribute that is not there, EmptyAttr for
\* attr="", a number otherwise
NoAttr == -1
EmptyAttr == -2
StartTs == 0
BakedDur == 7

Tok(k, s, d) == [k |-> k, start |-> s, dur |-> d]
Txt == Tok("txt", NoAttr, NoAttr)
BadTag == Tok("bad", NoAttr, NoAttr)
CloseTag == Tok("close", NoAttr, NoAttr)
OpenTag(s, d) == Tok("open", s, d)

AliasOpen == Tok("aopen", NoAttr, NoAttr)
AliasClose == Tok("aclose", NoAttr, NoAttr)
NoLit == Tok("none", NoAttr, NoAttr)

\* a blank line (paragraph break), and text that spells THINKMARKER0ENDMARKER
Par == Tok("par", NoAttr, NoAttr)
Mk0 == Tok("mk", 0, NoAttr)

\* a chunk that is a JSON object with an error field: {"error": "..."}
ErrorJson == Tok("err", NoAttr, NoAttr)

\* what the upstream model may emit in one chunk
ChunkTokens == {Txt, BadTag, OpenTag(StartTs, NoAttr), CloseTag}

\* the tokens of a complete response body: the alias pair and every attribute
\* combination of the opening tag
BodyTokens ==
    {Txt, CloseTag, AliasOpen, AliasClose, OpenTag(NoAttr, NoAttr),
     OpenTag(NoAttr, BakedDur)}
    \cup {OpenTag(StartTs, d) : d \in {NoAttr, EmptyAttr, BakedDur}}

RECURSIVE TextsUpTo(_)
TextsUpTo(n) ==
    IF n = 0 THEN {<<>>}
    ELSE LET S == TextsUpTo(n - 1)
         IN S \cup {Append(t, c) : t \in {u \in S : Len(u) = n - 1}, c \in ChunkTokens}

\* ---------------------------------------------------------------- rendering
Trunc1000(x) == x \div 1000

\* Math.round(x / 1000)
Round1000(x) == (x + 500) \div 1000

Thinking == [t |-> "Thinking", n |-> 0]
ThoughtFor(n) == [t |-> "Thought", n |-> n]
NoLabel == [t |-> "none", n |-> 0]

PlainNode(k) ==
    [k |-> k, id |-> NoAttr, active |-> FALSE, expanded |-> FALSE,
     label |-> NoLabel, inner |-> <<>>, lit |-> NoLit, wrapped |-> FALSE]

NormalizeOpenOnly(text) ==
    [i \in 1..Len(text) |->
        IF text[i].k = "aopen" THEN OpenTag(NoAttr, NoAttr) ELSE text[i]]

\* text.replace(/<thinking>/g, '<think>').replace(/<\/thinking>/g, '</think>')
Normalize(text) ==
    [i \in 1..Len(text) |->
        IF text[i].k = "aopen" THEN OpenTag(NoAttr, NoAttr)
        ELSE IF text[i].k = "aclose" THEN CloseTag
        ELSE text[i]]

\* marked.parse on one token: text stays text, tags pass through as raw HTML
MarkedKind(tok) ==
    CASE tok.k = "txt" -> "txt"
      [] tok.k = "bad" -> "bad"
      [] tok.k = "mk" -> "mk"
      [] tok.k = "par" -> "par"
      [] tok.k = "err" -> "txt"
      [] OTHER -> "raw"

\* marked wraps a marker that is alone in its paragraph: <p>THINKMARKERnENDMARKER</p>
Wrapped(text, i) ==
    /\ text[i].k = "mk"
    /\ i = 1 \/ text[i - 1].k = "par"
    /\ i = Len(text) \/ text[i + 1].k = "par"

\* marker text inside the content of a block: which marker, wrapped or not
MkKind(idx, wrapped) ==
    CASE idx = 0 /\ wrapped -> "p-mk0"
      [] idx = 0 /\ ~wrapped -> "mk0"
      [] idx = 1 /\ wrapped -> "p-mk1"
      [] idx = 1 /\ ~wrapped -> "mk1"
      [] OTHER -> "mk"

MarkedInner(content) ==
    [i \in 1..Len(content) |->
        IF content[i].k = "mk" THEN MkKind(content[i].start, Wrapped(content, i))
        ELSE MarkedKind(content[i])]

\* position of the first </think> at or after i, 0 when there is none
FirstClose(text, i) ==
    LET S == {j \in i..Len(text) : text[j].k = "close"}
    IN IF S = {} THEN 0 ELSE CHOOSE j \in S : \A k \in S : j <= k

\* if (durationAttr), if (startTs): the group matched and is not ""
Truthy(v) == v # NoAttr /\ v # EmptyAttr

DurationLiveFirst(tag, isClosed, clock) ==
    IF Truthy(tag.start)
    THEN IF isClosed THEN ThoughtFor(Round1000(clock - tag.start)) ELSE Thinking
    ELSE IF Truthy(tag.dur) THEN ThoughtFor(tag.dur) ELSE Thinking

DurationText(tag, isClosed, clock) ==
    IF Truthy(tag.dur) THEN ThoughtFor(tag.dur)
    ELSE IF Truthy(tag.start)
         THEN IF isClosed THEN ThoughtFor(Round1000(clock - tag.start)) ELSE Thinking
         ELSE Thinking

BlockHtmlSameId(idx, tag, content, isClosed, clock) ==
    [k |-> "block", id |-> 0, active |-> ~isClosed, expanded |-> ~isClosed,
     label |-> IF tag.dur # NoAttr /\ tag.dur # EmptyAttr
               THEN [t |-> "Thought", n |-> tag.dur]
               ELSE IF tag.start # NoAttr /\ tag.start # EmptyAttr /\ isClosed
               THEN [t |-> "Thought", n |-> (clock - tag.start + 500) \div 1000]
               ELSE [t |-> "Thinking", n |-> 0],
     inner |-> [i \in 1..Len(content) |->
                  CASE content[i].k = "txt" -> "txt"
                    [] content[i].k = "bad" -> "bad"
                    [] content[i].k = "mk" -> "mk"
                    [] OTHER -> "raw"],
     lit |-> [k |-> "none", start |-> NoAttr, dur |-> NoAttr], wrapped |-> FALSE]

BlockHtml(idx, tag, content, isClosed, clock) ==
    [k |-> "block", id |-> idx, active |-> ~isClosed, expanded |-> ~isClosed,
     label |-> DurationText(tag, isClosed, clock), inner |-> MarkedInner(content),
     lit |-> NoLit, wrapped |-> FALSE]

\* the regex replace of renderMarkdown: every <think ...> up to the first
\* </think> (or the end of the text) becomes a marker, its html is recorded;
\* starts are the offsets of the matches, at the offsets of the markers in the
\* processed text
RECURSIVE ExtractFrom(_, _, _, _)
ExtractFrom(text, i, idx, clock) ==
    IF i > Len(text) THEN [processed |-> <<>>, blocks |-> <<>>, starts |-> <<>>, at |-> <<>>]
    ELSE IF text[i].k = "open"
    THEN LET c == FirstClose(text, i + 1)
             isClosed == c # 0
             last == IF isClosed THEN c - 1 ELSE Len(text)
             content == SubSeq(text, i + 1, last)
             rest == ExtractFrom(text, IF isClosed THEN c + 1 ELSE Len(text) + 1,
                                 idx + 1, clock)
         IN [processed |-> <<Tok("mk", idx, NoAttr)>> \o rest.processed,
             blocks |-> <<BlockHtml(idx, text[i], content, isClosed, clock)>>
                        \o rest.blocks,
             starts |-> <<i>> \o rest.starts,
             at |-> <<1>> \o [k \in 1..Len(rest.at) |-> rest.at[k] + 1]]
    ELSE LET rest == ExtractFrom(text, i + 1, idx, clock)
         IN [processed |-> <<text[i]>> \o rest.processed, blocks |-> rest.blocks,
             starts |-> rest.starts,
             at |-> [k \in 1..Len(rest.at) |-> rest.at[k] + 1]]

ExtractBlocks(text, clock) == ExtractFrom(text, 1, 0, clock)

\* marked.parse(processedText)
MarkedParse(processed) ==
    [i \in 1..Len(processed) |->
        IF processed[i].k = "mk"
        THEN [PlainNode("mk") EXCEPT !.id = processed[i].start,
                                     !.wrapped = Wrapped(processed, i)]
        ELSE PlainNode(MarkedKind(processed[i]))]

\* the forms of marker idx that a search string matches inside a block's content:
\* '<p>MARKER</p>' matches the wrapped form, 'MARKER' matches both
InnerForms(idx, wrappedOnly) ==
    IF wrappedOnly THEN {MkKind(idx, TRUE)} ELSE {MkKind(idx, TRUE), MkKind(idx, FALSE)}

\* node j holds an occurrence of the search string
HoldsMarker(node, idx, wrappedOnly) ==
    \/ node.k = "mk" /\ node.id = idx /\ (wrappedOnly => node.wrapped)
    \/ node.k = "block" /\ \E i \in 1..Len(node.inner) :
                                node.inner[i] \in InnerForms(idx, wrappedOnly)

\* html.replace(searchString, blockHtml): the first occurrence in document order,
\* at the top level or inside the content of a block that is already in place
ReplaceMarker(html, idx, blockHtml, wrappedOnly) ==
    LET S == {j \in 1..Len(html) : HoldsMarker(html[j], idx, wrappedOnly)}
    IN IF S = {} THEN html
       ELSE LET j == CHOOSE x \in S : \A y \in S : x <= y
                I == {i \in 1..Len(html[j].inner) :
                         html[j].inner[i] \in InnerForms(idx, wrappedOnly)}
                nested == [i \in 1..Len(html[j].inner) |->
                              IF i = (CHOOSE x \in I : \A y \in I : x <= y)
                              THEN "nested" ELSE html[j].inner[i]]
            IN [i \in 1..Len(html) |->
                   IF i # j THEN html[i]
                   ELSE IF html[j].k = "mk" THEN blockHtml
                   ELSE [html[j] EXCEPT !.inner = nested]]

\* thinkBlocksData.forEach: replace '<p>MARKER</p>', then replace 'MARKER'
RECURSIVE Reinject(_, _, _)
Reinject(html, blocks, n) ==
    IF n > Len(blocks) THEN html
    ELSE Reinject(ReplaceMarker(ReplaceMarker(html, n - 1, blocks[n], TRUE),
                                n - 1, blocks[n], FALSE),
                  blocks, n + 1)

Allowed(kind) == kind \notin {"bad", "raw"}

RECURSIVE KeepAllowed(_)
KeepAllowed(kinds) ==
    IF kinds = <<>> THEN <<>>
    ELSE IF Allowed(Head(kinds)) THEN <<Head(kinds)>> \o KeepAllowed(Tail(kinds))
    ELSE KeepAllowed(Tail(kinds))

\* DOMPurify.sanitize with the allow-list of renderMarkdown
RECURSIVE PurifySanitize(_)
PurifySanitize(html) ==
    IF html = <<>> THEN <<>>
    ELSE LET h == Head(html)
         IN IF ~Allowed(h.k) THEN PurifySanitize(Tail(html))
            ELSE <<[h EXCEPT !.inner = KeepAllowed(h.inner)]>>
                 \o PurifySanitize(Tail(html))

SanitizeStep(html, purify) == IF purify THEN PurifySanitize(html) ELSE html

\* escapeHTML(text): every token becomes literal text that spells it out
EscapeHTML(text) == [i \in 1..Len(text) |-> [PlainNode("txt") EXCEPT !.lit = text[i]]]

\* renderMarkdown(text): the html, and whether the DOMPurify branch ran
RenderMarkdown(text, clock, marked, purify) ==
    IF ~marked THEN [html |-> EscapeHTML(text), sanitized |-> FALSE]
    ELSE LET ex == ExtractBlocks(Normalize(text), clock)
             html == Reinject(MarkedParse(ex.processed), ex.blocks, 1)
         IN [html |-> SanitizeStep(html, purify), sanitized |-> purify]

\* ---------------------------------------------------------------- merge
\* querySelector('.thought-block.thinking-active'): first match, 0 for null
ActiveBlock(html) ==
    LET S == {j \in 1..Len(html) : html[j].k = "block" /\ html[j].active}
    IN IF S = {} THEN 0 ELSE CHOOSE j \in S : \A k \in S : j <= k

ExpandedIds(html) ==
    {html[j].id : j \in {i \in 1..Len(html) : html[i].k = "block" /\ html[i].expanded}}

ReapplyExpandedDropped(html, ids) == html

\* the regex that injects ' expanded' into the blocks whose id was expanded
ReapplyExpanded(html, ids) ==
    [j \in 1..Len(html) |->
        IF html[j].k = "block" /\ html[j].id \in ids
        THEN [html[j] EXCEPT !.expanded = TRUE]
        ELSE html[j]]

MergeAlwaysFull(cur, html) ==
    [dom |-> ReapplyExpanded(html, ExpandedIds(cur)), path |-> "full"]

\* streamToMessage past its null check: the new content of the target
MergeRender(cur, html) ==
    LET na == ActiveBlock(html)
        ca == ActiveBlock(cur)
    IN IF na # 0 /\ ca # 0 /\ html[na].id = cur[ca].id
       THEN [dom |-> [j \in 1..Len(cur) |->
                        IF j = ca THEN [cur[j] EXCEPT !.inner = html[na].inner]
                        ELSE cur[j]],
             path |-> "fast"]
       ELSE [dom |-> ReapplyExpanded(html, ExpandedIds(cur)), path |-> "full"]

NoBake(text, clock) == text

\* fullText.replace(/<think start="([^"]*)">/g, ...) of finalizeStreamingMessage
BakeDurations(text, clock) ==
    [i \in 1..Len(text) |->
        IF text[i].k = "open" /\ text[i].start # NoAttr /\ text[i].dur = NoAttr
        THEN [text[i] EXCEPT !.dur = Round1000(clock - text[i].start)]
        ELSE text[i]]

\* ---------------------------------------------------------------- state
VARIABLES
    markedLoaded,           \* typeof marked !== 'undefined'
    purifyLoaded,           \* typeof DOMPurify !== 'undefined'
    now,                    \* Date.now()
    messages,               \* this.messages
    isLoading,              \* this.isLoading
    dom,                    \* content of every bot bubble's .message-content
    currentStreamContent,   \* index into dom, 0 for null
    currentStreamInner,     \* index into dom, 0 for null
    currentFullText,        \* this.currentFullText
    req,                    \* the sendMessage invocations and their position
    hist,                   \* per bubble: who opened it, rendered into it, finalized it
    cancelled,              \* the requests that were in flight when stop was pressed
    delivered,              \* number of upstream events so far: tokens delivered, transport errors
    last,                   \* the operation of the last step
    probe,                  \* the link, code fence or JSON payload under study, and the link dialog
    consent,                \* localStorage[consentKey] === 'accepted'
    stored,                 \* the messages of the current chat in localStorage[storageKey]
    sessionId,              \* window.chatbot.sessionId
    history,                \* ChatSaver.getHistory(): the chats in localStorage[storageKey], newest first
    clearing,               \* clearConversation requests that have not been answered yet
    modelSelect,            \* this.modelSelect.value
    reasoningMode           \* this.reasoningMode

vars == <<markedLoaded, purifyLoaded, now, messages, isLoading, dom,
          currentStreamContent, currentStreamInner, currentFullText, req,
          hist, cancelled, delivered, last, consent, stored, probe,
          sessionId, history, clearing, modelSelect, reasoningMode>>

Requests == 1..MaxRequests

\* no link and no code fence is being looked at
NoProbe == [kind |-> "none"]
InFlight == {"fetching", "reading", "json"}

ChatIds == 1..MaxChats

\* this.REASONING_CAPABLE_MODELS, and the models of the dropdown
ReasoningCapableModels == {"deepseek-ai/deepseek-r1", "moonshotai/kimi-k2-thinking"}
DefaultModel == "meta/llama-4-maverick-17b-128e-instruct"
Models == ReasoningCapableModels \cup {DefaultModel}

\* if (history.length > 100) history.pop()
HistoryCap == 100

\* history.findIndex(c => c.id === id), counted from 1; 0 when there is none
FindIndex(h, id) ==
    LET S == {i \in 1..Len(h) : h[i].id = id}
    IN IF S = {} THEN 0 ELSE CHOOSE i \in S : \A j \in S : i <= j

\* the chat that startSession and the fallback of saveCurrentChat create; a
\* title is 'New Chat', the start of the first user message ("first") or the
\* generated one ("ai", with isTitleGenerated)
NewChat(id, model) ==
    [id |-> id, title |-> "New Chat", messages |-> <<>>, model |-> model,
     stats |-> 0, isGeneratingTitle |-> FALSE]

HasUserMessage(msgs) == \E i \in 1..Len(msgs) : msgs[i].role = "user"

\* saveCurrentChat on chatData: messages, model, the title logic, and the
\* request for a generated title
SavedChat(chat, msgs) ==
    [chat EXCEPT !.messages = msgs,
                 !.model = modelSelect,
                 !.title = IF @ = "New Chat" /\ HasUserMessage(msgs) THEN "first" ELSE @,
                 !.isGeneratingTitle = @ \/ (chat.title # "ai" /\ HasUserMessage(msgs))]

\* a history that holds msgs under chat id 1, if anything was saved
OneChat(msgs) ==
    IF msgs = <<>> THEN <<>> ELSE <<SavedChat(NewChat(1, modelSelect), msgs)>>

\* the stored messages of chat id, none when the history has no such chat
StoredOf(h, id) == IF FindIndex(h, id) = 0 THEN <<>> ELSE h[FindIndex(h, id)].messages

\* buf is the text that a chunk handed to streamToMessage, that a finalize which
\* found its session open worked on
NoOp == [op |-> "other", req |-> 0, path |-> "none", buf |-> <<>>]

\* a fresh page of a user who accepted the storage consent (RenderInit below
\* has the declined case)
Init ==
    /\ markedLoaded \in BOOLEAN
    /\ purifyLoaded \in BOOLEAN
    /\ now = 0
    /\ messages = <<>>
    /\ isLoading = FALSE
    /\ dom = <<>>
    /\ currentStreamContent = 0
    /\ currentStreamInner = 0
    /\ currentFullText = <<>>
    /\ req = [r \in Requests |-> [pc |-> "idle", srv |-> 0, full |-> <<>>]]
    /\ hist = <<>>
    /\ cancelled = {}
    /\ delivered = 0
    /\ last = NoOp
    /\ consent = TRUE
    /\ stored = <<>>
    /\ sessionId = 1
    /\ clearing = 0
    /\ modelSelect = DefaultModel
    /\ reasoningMode = FALSE
    /\ history = OneChat(stored)
    /\ probe = NoProbe

\* ChatSaver.saveCurrentChat(): the stored messages of the current chat afterwards
SaveCurrentChat(msgs) ==
    IF ~consent \/ Len(msgs) = 0 THEN stored ELSE msgs

SavedHistoryUnguarded(accepted, h, msgs) ==
    IF Len(msgs) = 0 THEN h
    ELSE LET k == FindIndex(h, sessionId)
         IN IF k = 0 THEN <<SavedChat(NewChat(sessionId, modelSelect), msgs)>> \o h
            ELSE [i \in 1..Len(h) |->
                     IF i = k THEN SavedChat(h[i], msgs) ELSE h[i]]

\* ChatSaver.saveCurrentChat() with history h in storage and the consent key
\* accepted or not: the history afterwards; the chat is looked up, or created,
\* under window.chatbot.sessionId
SavedHistory(accepted, h, msgs) ==
    IF ~accepted \/ Len(msgs) = 0 THEN h
    ELSE LET k == FindIndex(h, sessionId)
         IN IF k = 0 THEN <<SavedChat(NewChat(sessionId, modelSelect), msgs)>> \o h
            ELSE [i \in 1..Len(h) |->
                     IF i = k THEN SavedChat(h[i], msgs) ELSE h[i]]

SaveHistory(msgs) == SavedHistory(consent, history, msgs)

\* streamToMessage(fullText) on target csc with bubble contents d
StreamToMessage(csc, d, fullText, clock) ==
    IF csc = 0 THEN [dom |-> d, path |-> "none", sanitized |-> TRUE]
    ELSE LET r == RenderMarkdown(fullText, clock, markedLoaded, purifyLoaded)
             m == MergeRender(d[csc], r.html)
         IN [dom |-> [b \in 1..Len(d) |-> IF b = csc THEN m.dom ELSE d[b]],
             path |-> m.path,
             sanitized |-> r.sanitized]

\* history of a render by request r into bubble csc
NoteRender(h, csc, r, s) ==
    IF s.path = "none" THEN h
    ELSE [h EXCEPT ![csc].writers = @ \cup {r},
                   ![csc].unsanitized = @ \/ ~s.sanitized]

AlwaysRun(csc, csi) == FALSE

\* if (!this.currentStreamContent || !this.currentStreamInner) return;
FinalizeReturnsEarly(csc, csi) == csc = 0 \/ csi = 0

\* finalizeStreamingMessage(fullText), called by request r
FinalizeStreamingMessage(r, fullText, d, h) ==
    /\ IF FinalizeReturnsEarly(currentStreamContent, currentStreamInner)
       THEN /\ UNCHANGED <<messages, isLoading, currentStreamContent,
                           currentStreamInner, currentFullText, stored, sessionId, history,
                   clearing, modelSelect, reasoningMode>>
            /\ dom' = d
            /\ hist' = h
            /\ last' = [op |-> "finalize", req |-> r, path |-> "none", buf |-> <<>>]
       ELSE LET baked == BakeDurations(fullText, now)
                s == StreamToMessage(currentStreamContent, d, baked, now)
                h1 == NoteRender(h, currentStreamContent, r, s)
            IN /\ dom' = s.dom
               /\ messages' = Append(messages, [role |-> "assistant", content |-> baked])
               /\ stored' = SaveCurrentChat(messages')
               /\ history' = SaveHistory(messages')
               /\ currentStreamContent' = 0
               /\ currentStreamInner' = 0
               /\ currentFullText' = <<>>
               /\ isLoading' = FALSE
               /\ hist' = IF currentStreamContent = 0 THEN h1
                          ELSE [h1 EXCEPT ![currentStreamContent].finalized = @ + 1]
               /\ last' = [op |-> "finalize", req |-> r, path |-> s.path,
                           buf |-> fullText]

\* sendMessage up to its await of callNvidiaAPI
SendMessage(r) ==
    /\ ~isLoading
    /\ req[r].pc = "idle"
    /\ \A q \in Requests : q < r => req[q].pc # "idle"
    /\ messages' = Append(messages, [role |-> "user", content |-> <<Txt>>])
    /\ stored' = SaveCurrentChat(messages')
    /\ history' = SaveHistory(messages')
    /\ isLoading' = TRUE
    /\ req' = [req EXCEPT ![r] = [pc |-> "fetching", srv |-> 1, full |-> <<>>]]
    /\ last' = NoOp
    /\ UNCHANGED <<probe, markedLoaded, purifyLoaded, consent, now, dom, currentStreamContent,
                   currentStreamInner, currentFullText, hist, cancelled, delivered,
                   sessionId,
                   clearing, modelSelect, reasoningMode>>

\* callNvidiaAPI: fetch resolved with response.ok, addMessageWithTyping("", 'bot', true, true)
FetchOk(r, isJson) ==
    /\ req[r].pc = "fetching"
    /\ dom' = Append(dom, <<>>)
    /\ hist' = Append(hist, [owner |-> r, writers |-> {}, finalized |-> 0,
                             unsanitized |-> FALSE])
    /\ currentStreamContent' = Len(dom) + 1
    /\ currentStreamInner' = Len(dom) + 1
    /\ currentFullText' = <<>>
    /\ req' = [req EXCEPT ![r].pc = IF isJson THEN "json" ELSE "reading",
                          ![r].full = <<>>]
    /\ last' = NoOp
    /\ UNCHANGED <<probe, markedLoaded, purifyLoaded, consent, now, messages, isLoading,
                   cancelled, delivered, stored, sessionId, history,
                   clearing, modelSelect, reasoningMode>>

\* the catch of callNvidiaAPI: next server, or rethrow into sendMessage's catch
Failover(r) ==
    /\ delivered < MaxEvents
    /\ delivered' = delivered + 1
    /\ IF req[r].srv < NumServers
       THEN /\ req' = [req EXCEPT ![r].pc = "fetching", ![r].srv = @ + 1]
            /\ UNCHANGED isLoading
       ELSE /\ req' = [req EXCEPT ![r] = [pc |-> "failed", srv |-> 0, full |-> <<>>]]
            /\ isLoading' = FALSE
    /\ last' = NoOp
    /\ UNCHANGED <<probe, markedLoaded, purifyLoaded, consent, now, messages, dom,
                   currentStreamContent, currentStreamInner, currentFullText,
                   hist, cancelled, stored, sessionId, history,
                   clearing, modelSelect, reasoningMode>>

FetchFail(r) ==
    /\ req[r].pc = "fetching"
    /\ Failover(r)

ReplaceBuffer(fullMessage, chunk) == <<chunk>>

\* bufferedText += chunk; fullMessage += chunk
Accumulate(fullMessage, chunk) == Append(fullMessage, chunk)

\* one turn of the read loop: a chunk arrived
ReadChunk(r, c) ==
    /\ req[r].pc = "reading"
    /\ delivered < MaxEvents
    /\ delivered' = delivered + 1
    /\ LET text == Accumulate(req[r].full, c)
           s == StreamToMessage(currentStreamContent, dom, text, now)
       IN /\ req' = [req EXCEPT ![r].full = text]
          /\ dom' = s.dom
          /\ currentFullText' = IF currentStreamContent = 0 THEN currentFullText ELSE text
          /\ hist' = NoteRender(hist, currentStreamContent, r, s)
          /\ last' = [op |-> "chunk", req |-> r, path |-> s.path, buf |-> text]
    /\ UNCHANGED <<probe, markedLoaded, purifyLoaded, consent, now, messages, isLoading,
                   currentStreamContent, currentStreamInner, cancelled, stored, sessionId, history,
                   clearing, modelSelect, reasoningMode>>

\* reader.read() reported done: callNvidiaAPI returns, sendMessage finalizes
ReadDone(r) ==
    /\ req[r].pc = "reading"
    /\ req' = [req EXCEPT ![r] = [pc |-> "done", srv |-> 0, full |-> <<>>]]
    /\ FinalizeStreamingMessage(r, req[r].full, dom, hist)
    /\ UNCHANGED <<probe, markedLoaded, purifyLoaded, consent, now, cancelled, delivered,
                   sessionId,
                   clearing, modelSelect, reasoningMode>>

ReadError(r) ==
    /\ req[r].pc = "reading"
    /\ Failover(r)

\* the JSON transport: response.json() resolved, one render, return, finalize
JsonBody(r, text) ==
    /\ req[r].pc = "json"
    /\ delivered + Len(text) <= MaxEvents
    /\ delivered' = delivered + Len(text)
    /\ LET s == StreamToMessage(currentStreamContent, dom, text, now)
       IN /\ req' = [req EXCEPT ![r] = [pc |-> "done", srv |-> 0, full |-> <<>>]]
          /\ FinalizeStreamingMessage(r, text, s.dom,
                                      NoteRender(hist, currentStreamContent, r, s))
    /\ UNCHANGED <<probe, markedLoaded, purifyLoaded, consent, now, cancelled, sessionId,
                   clearing, modelSelect, reasoningMode>>

\* data.error in the JSON payload
JsonError(r) ==
    /\ req[r].pc = "json"
    /\ Failover(r)

\* click on the send button while isLoading
StopGeneration ==
    /\ isLoading
    /\ isLoading' = FALSE
    /\ cancelled' = cancelled \cup {r \in Requests : req[r].pc \in InFlight}
    /\ last' = NoOp
    /\ UNCHANGED <<probe, markedLoaded, purifyLoaded, consent, now, messages, dom,
                   currentStreamContent, currentStreamInner, currentFullText,
                   req, hist, delivered, stored, sessionId, history,
                   clearing, modelSelect, reasoningMode>>

\* click on a .thought-toggle: block.classList.toggle('expanded')
ToggleClick(b, j) ==
    /\ b = currentStreamContent
    /\ dom[b][j].k = "block"
    /\ dom' = [dom EXCEPT ![b][j].expanded = ~@]
    /\ last' = [NoOp EXCEPT !.op = "toggle"]
    /\ UNCHANGED <<probe, markedLoaded, purifyLoaded, consent, now, messages, isLoading,
                   currentStreamContent, currentStreamInner, currentFullText,
                   req, hist, cancelled, delivered, stored, sessionId, history,
                   clearing, modelSelect, reasoningMode>>

\* wall-clock time passes
Tick ==
    /\ now + 500 <= MaxNow
    /\ now' = now + 500
    /\ last' = NoOp
    /\ UNCHANGED <<probe, markedLoaded, purifyLoaded, consent, messages, isLoading, dom,
                   currentStreamContent, currentStreamInner, currentFullText,
                   req, hist, cancelled, delivered, stored, sessionId, history,
                   clearing, modelSelect, reasoningMode>>

Next ==
    \/ \E r \in Requests : SendMessage(r)
    \/ \E r \in Requests, j \in BOOLEAN : FetchOk(r, j)
    \/ \E r \in Requests : FetchFail(r)
    \/ \E r \in Requests, c \in ChunkTokens : ReadChunk(r, c)
    \/ \E r \in Requests : ReadDone(r)
    \/ \E r \in Requests : ReadError(r)
    \/ \E r \in Requests, t \in TextsUpTo(MaxEvents) : JsonBody(r, t)
    \/ \E r \in Requests : JsonError(r)
    \/ StopGeneration
    \/ \E b \in 1..Len(dom) : \E j \in 1..Len(dom[b]) : ToggleClick(b, j)
    \/ Tick

Spec == Init /\ [][Next]_vars

\* ---------------------------------------------------------------- one response, then restore
\* A single response is streamed chunk by chunk, every chunk drawn from
\* BodyTokens, while the clock advances; it is rendered and finalized, and later
\* the stored chat is loaded again (ChatSaver.loadChat -> addMessage ->
\* renderMarkdown).
RenderClocks == {StartTs, StartTs + 1700, StartTs + 5000}

UserMessage == [role |-> "user", content |-> <<Txt>>]

\* the state after sendMessage and a first fetch that answered with a stream,
\* storage consent accepted or declined
RenderInit ==
    /\ markedLoaded \in BOOLEAN
    /\ purifyLoaded \in BOOLEAN
    /\ now \in RenderClocks
    /\ messages = <<UserMessage>>
    /\ isLoading = TRUE
    /\ dom = << <<>> >>
    /\ currentStreamContent = 1
    /\ currentStreamInner = 1
    /\ currentFullText = <<>>
    /\ req = [r \in Requests |->
                IF r = 1 THEN [pc |-> "reading", srv |-> 1, full |-> <<>>]
                ELSE [pc |-> "idle", srv |-> 0, full |-> <<>>]]
    /\ hist = <<[owner |-> 1, writers |-> {}, finalized |-> 0, unsanitized |-> FALSE]>>
    /\ cancelled = {}
    /\ delivered = 0
    /\ last = NoOp
    /\ consent \in BOOLEAN
    /\ stored = IF consent THEN <<UserMessage>> ELSE <<>>
    /\ sessionId = 1
    /\ clearing = 0
    /\ modelSelect = DefaultModel
    /\ reasoningMode = FALSE
    /\ history = OneChat(stored)
    /\ probe = NoProbe

RECURSIVE BotBubbles(_, _)
\* chat.messages.forEach(msg => addMessage(msg.content, displayRole, false, index)):
\* the .message-content of the bot bubbles, in order
BotBubbles(msgs, clock) ==
    IF msgs = <<>> THEN <<>>
    ELSE IF Head(msgs).role = "user" THEN BotBubbles(Tail(msgs), clock)
    ELSE <<RenderMarkdown(Head(msgs).content, clock, markedLoaded, purifyLoaded).html>>
         \o BotBubbles(Tail(msgs), clock)

\* ChatSaver.loadChat(chatId) for the stored chat, no response being streamed
LoadChat ==
    /\ stored # <<>>
    /\ currentStreamContent = 0
    /\ \A r \in Requests : req[r].pc \notin InFlight
    /\ messages' = stored
    /\ dom' = BotBubbles(stored, now)
    /\ hist' = [b \in 1..Len(dom') |->
                  [owner |-> 1, writers |-> {}, finalized |-> 1,
                   unsanitized |-> ~(markedLoaded /\ purifyLoaded)]]
    /\ last' = [NoOp EXCEPT !.op = "load"]
    /\ UNCHANGED <<probe, markedLoaded, purifyLoaded, consent, now, isLoading,
                   currentStreamContent, currentStreamInner, currentFullText,
                   req, cancelled, delivered, stored, sessionId, history,
                   clearing, modelSelect, reasoningMode>>

\* the chat is opened again at a later time
ClockJump(t) ==
    /\ t > now
    /\ now' = t
    /\ last' = NoOp
    /\ UNCHANGED <<probe, markedLoaded, purifyLoaded, consent, messages, isLoading, dom,
                   currentStreamContent, currentStreamInner, currentFullText,
                   req, hist, cancelled, delivered, stored, sessionId, history,
                   clearing, modelSelect, reasoningMode>>

RenderNext ==
    \/ \E c \in BodyTokens : ReadChunk(1, c)
    \/ ReadDone(1)
    \/ LoadChat
    \/ \E t \in RenderClocks : ClockJump(t)

RenderSpec == RenderInit /\ [][RenderNext]_vars

\* ---------------------------------------------------------------- properties
BlockIds(d) == {d[j].id : j \in {i \in 1..Len(d) : d[i].k = "block"}}

IsExpanded(d, id) == \E j \in 1..Len(d) : d[j].k = "block" /\ d[j].id = id /\ d[j].expanded

\* both libraries are there: marked and DOMPurify
LibrariesLoaded == markedLoaded /\ purifyLoaded

\* C1: a render (fast path or full path, the one of finalize included) keeps every
\* block id that is in the target before and after it expanded if it was expanded.
C1_ExpandedPreserved ==
    [][last'.path # "none" =>
        \A b \in 1..Len(dom) : \A id \in BlockIds(dom[b]) \cap BlockIds(dom'[b]) :
            IsExpanded(dom[b], id) => IsExpanded(dom'[b], id)]_vars

\* a chunk just took the full path and a block that is now closed is expanded:
\* the class was carried over from the previous content of the target
C1_Witness ==
    /\ last.op = "chunk"
    /\ last.path = "full"
    /\ currentStreamContent # 0
    /\ \E j \in 1..Len(dom[currentStreamContent]) :
          LET n == dom[currentStreamContent][j]
          IN n.k = "block" /\ ~n.active /\ n.expanded

\* C2: a render never expands a block on its own: every block id that is in the
\* target before and after a render and was collapsed before is collapsed after.
C2_CollapsedPreserved ==
    [][(LibrariesLoaded /\ last'.path # "none") =>
        \A b \in 1..Len(dom) : \A id \in BlockIds(dom[b]) \cap BlockIds(dom'[b]) :
            ~IsExpanded(dom[b], id) => ~IsExpanded(dom'[b], id)]_vars

\* C3: every render of markup (marked is loaded) that was written into a target
\* went through the sanitizer.
C3_EveryWriteSanitized == markedLoaded => \A b \in 1..Len(hist) : ~hist[b].unsanitized

HasBad(text) == \E i \in 1..Len(text) : text[i].k = "bad"

BadInstances(html) ==
    \E j \in 1..Len(html) :
        \/ html[j].k = "bad"
        \/ \E i \in 1..Len(html[j].inner) : html[j].inner[i] = "bad"

\* C4: the pipeline output for a buffer with a disallowed tag has no instance of it.
C4_NoDisallowedTag ==
    \A r \in Requests :
        HasBad(req[r].full) =>
            ~BadInstances(RenderMarkdown(req[r].full, now, markedLoaded, purifyLoaded).html)

\* C5: the chunks and finalize calls of two responses never reach the same target.
C5_OneSessionPerTarget ==
    LibrariesLoaded => \A b \in 1..Len(hist) : Cardinality(hist[b].writers) <= 1

\* C6: once stop was pressed, no chunk of a cancelled response is rendered and the
\* text of the cancelled response no longer changes before it is finalized.
C6_NoChunkAfterStop ==
    [][LibrariesLoaded => \A r \in cancelled :
          /\ (last'.op = "chunk" /\ last'.req = r) => last'.path = "none"
          /\ req'[r].pc \in InFlight => req'[r].full = req[r].full]_vars

\* C7: a bubble opened for a response is finalized exactly once by the time the
\* request that opened it has returned from callNvidiaAPI.
C7_FinalizedExactlyOnce ==
    LibrariesLoaded => \A b \in 1..Len(hist) :
        /\ hist[b].finalized <= 1
        /\ req[hist[b].owner].pc = "done" => hist[b].finalized = 1

ClockValues == {t \in 0..MaxNow : t % 500 = 0}

\* C8: finalize on an already finalized session changes nothing, no target is
\* finalized twice, and a baked text is not changed by baking it again.
C8_FinalizeIdempotent ==
    /\ [][(last'.op = "finalize" /\ currentStreamContent = 0) =>
            UNCHANGED <<messages, dom, isLoading, currentStreamContent,
                        currentStreamInner, currentFullText>>]_vars
    /\ [](\A b \in 1..Len(hist) : hist[b].finalized <= 1)
    /\ [](\A i \in 1..Len(messages) : \A t \in ClockValues :
            messages[i].role = "assistant" =>
                BakeDurations(messages[i].content, t) = messages[i].content)

\* a finalize call found the session already finalized, after a first one had
\* baked a duration
C8_Witness ==
    /\ last.op = "finalize"
    /\ last.path = "none"
    /\ \E i \in 1..Len(messages) : \E j \in 1..Len(messages[i].content) :
          messages[i].role = "assistant" /\ messages[i].content[j].dur # NoAttr

Unterminated(text) ==
    LET blocks == ExtractBlocks(Normalize(text), 0).blocks
    IN \E j \in 1..Len(blocks) : blocks[j].active

\* C9: a finalized text has no unterminated reasoning block.
C9_FinalTextClosed ==
    LibrariesLoaded => \A i \in 1..Len(messages) :
        messages[i].role = "assistant" => ~Unterminated(messages[i].content)

Collapse(html) == [j \in 1..Len(html) |-> [html[j] EXCEPT !.expanded = FALSE]]

\* C10: after finalize the target holds the full rendering of the baked text, up
\* to the expanded flags, and shows no block in the active state.
C10_FinalRenderIsFull ==
    [][(LibrariesLoaded /\ last'.op = "finalize" /\ currentStreamContent # 0) =>
        LET baked == messages'[Len(messages')].content
            full == RenderMarkdown(baked, now, markedLoaded, purifyLoaded).html
            shown == dom'[currentStreamContent]
        IN /\ Collapse(shown) = Collapse(full)
           /\ \A j \in 1..Len(shown) : ~shown[j].active]_vars

IsPrefix(s, t) == Len(s) <= Len(t) /\ SubSeq(t, 1, Len(s)) = s

\* C11: while a response is being read its buffer only grows: it keeps the buffer
\* of the step before as a prefix, a chunk makes it exactly one chunk longer, and
\* the buffer that streamToMessage receives is that accumulated buffer.
C11_BufferMonotonic ==
    [][\A r \in Requests :
        (req[r].pc = "reading" /\ req'[r].pc = "reading") =>
            /\ IsPrefix(req[r].full, req'[r].full)
            /\ (last'.op = "chunk" /\ last'.req = r) =>
                    /\ Len(req'[r].full) = Len(req[r].full) + 1
                    /\ last'.path # "none" => currentFullText' = req'[r].full]_vars

\* the third chunk of a response was just rendered
C11_Witness ==
    /\ last.op = "chunk"
    /\ last.path # "none"
    /\ Len(currentFullText) >= 3
    /\ currentFullText = req[last.req].full

\* the blocks of the buffer that was rendered last, as the extraction sees them
Extracted(text, clock) == ExtractBlocks(Normalize(text), clock)

OpenPositions(text) == {i \in 1..Len(text) : text[i].k = "open"}

\* the position of the last opening tag, 0 when there is none
LastOpen(text) ==
    IF OpenPositions(text) = {} THEN 0
    ELSE CHOOSE i \in OpenPositions(text) : \A j \in OpenPositions(text) : j <= i

\* C13: when the last opening tag of the buffer has no closing tag after it, the
\* extraction yields exactly one open block, it is the block of that tag, its
\* inner text is everything after the tag, and its label is "Thinking" (the
\* label of a tag that carries a duration attribute is the subject of C16).
C13_OpenBlock ==
    LET text == Normalize(currentFullText)
        p == LastOpen(text)
        ex == Extracted(currentFullText, now)
        open == {k \in 1..Len(ex.blocks) : ex.blocks[k].active}
    IN (p # 0 /\ FirstClose(text, p + 1) = 0) =>
          /\ Cardinality(open) = 1
          /\ \A k \in open :
                /\ ex.starts[k] = p
                /\ ex.blocks[k].inner = MarkedInner(SubSeq(text, p + 1, Len(text)))
                /\ ~Truthy(text[p].dur) => ex.blocks[k].label = Thinking

\* the first opening tag after position p, Len(text) + 1 when there is none
NextOpen(text, p) ==
    LET S == {i \in OpenPositions(text) : i > p}
    IN IF S = {} THEN Len(text) + 1 ELSE CHOOSE i \in S : \A j \in S : i <= j

\* C14: every opening tag of the normalized buffer has its own block, in order;
\* the block is closed exactly when a closing tag comes before the next opening
\* tag or the end, and then its inner text is the text between the two tags.
C14_BlockPerOpeningTag ==
    LET text == Normalize(currentFullText)
        ex == Extracted(currentFullText, now)
    IN /\ Len(ex.blocks) = Cardinality(OpenPositions(text))
       /\ {ex.starts[k] : k \in 1..Len(ex.starts)} = OpenPositions(text)
       /\ \A k \in 1..Len(ex.blocks) :
             LET p == ex.starts[k]
                 c == FirstClose(text, p + 1)
                 closed == c # 0 /\ c < NextOpen(text, p)
             IN /\ k > 1 => ex.starts[k - 1] < p
                /\ ~ex.blocks[k].active <=> closed
                /\ closed => ex.blocks[k].inner = MarkedInner(SubSeq(text, p + 1, c - 1))

\* the label shown for block id in the content d of a bubble
LabelsOf(d, id) == {d[j].label : j \in {i \in 1..Len(d) : d[i].k = "block" /\ d[i].id = id}}

IsClosedIn(d, id) == \E j \in 1..Len(d) : d[j].k = "block" /\ d[j].id = id /\ ~d[j].active

\* C15: a block that is shown closed keeps the label it has in every later render
\* of the growing buffer and in the render of finalize, whatever the clock says
\* (stated for a bubble that a single response renders into).
C15_DurationFrozen ==
    [][(LibrariesLoaded /\ last'.op \in {"chunk", "finalize"} /\ last'.path # "none") =>
        \A b \in 1..Len(dom) : \A id \in BlockIds(dom[b]) \cap BlockIds(dom'[b]) :
            (Cardinality(hist'[b].writers) <= 1 /\ IsClosedIn(dom[b], id)) =>
                LabelsOf(dom'[b], id) = LabelsOf(dom[b], id)]_vars

Nearest(d, x) == 2 * (1000 * d - x) <= 1000 /\ 2 * (x - 1000 * d) <= 1000

\* C17: finalize at clock N rewrites every tag with start T and no duration
\* attribute to carry the same start and duration = (N - T)/1000 rounded to the
\* nearest second, 5 for N = T + 5000, and leaves every other token as it was.
C17_BakeRounding ==
    [][(last'.op = "finalize" /\ last'.path # "none") =>
        LET raw == last'.buf
            baked == messages'[Len(messages')].content
        IN /\ Len(baked) = Len(raw)
           /\ \A i \in 1..Len(raw) :
                 IF raw[i].k = "open" /\ raw[i].start >= 0 /\ raw[i].dur = NoAttr
                 THEN /\ baked[i].k = "open"
                      /\ baked[i].start = raw[i].start
                      /\ Nearest(baked[i].dur, now - raw[i].start)
                      /\ now - raw[i].start = 5000 => baked[i].dur = 5
                 ELSE baked[i] = raw[i]]_vars

\* finalize ran 5000 ms after the start of a block and baked 5 into its tag,
\* next to a tag that already carried a duration
C17_Witness ==
    /\ last.op = "finalize"
    /\ last.path # "none"
    /\ now = StartTs + 5000
    /\ \E i, j \in 1..Len(last.buf) :
          /\ last.buf[i] = OpenTag(StartTs, NoAttr)
          /\ messages[Len(messages)].content[i] = OpenTag(StartTs, 5)
          /\ last.buf[j] = OpenTag(StartTs, BakedDur)
          /\ messages[Len(messages)].content[j] = OpenTag(StartTs, BakedDur)

IsAssistant(m) == m.role = "assistant"

C19_RestoreClockFree ==
    last.op = "load" => \A t \in RenderClocks : BotBubbles(stored, t) = dom

\* the buffer with every alias tag written as the canonical tag without attributes
ToCanonical(text) ==
    [i \in 1..Len(text) |->
        CASE text[i] = AliasOpen -> OpenTag(NoAttr, NoAttr)
          [] text[i] = AliasClose -> CloseTag
          [] OTHER -> text[i]]

HasAliasPair(text) ==
    \E i, j \in 1..Len(text) : i < j /\ text[i] = AliasOpen /\ text[j] = AliasClose

SameAsCanonical(text) ==
    RenderMarkdown(text, now, markedLoaded, purifyLoaded).html
        = RenderMarkdown(ToCanonical(text), now, markedLoaded, purifyLoaded).html

MarkerTokens == {Txt, Par, Mk0, OpenTag(NoAttr, NoAttr), CloseTag}

MarkerNext ==
    \/ \E c \in MarkerTokens : ReadChunk(1, c)
    \/ ReadDone(1)

MarkerSpec == RenderInit /\ [][MarkerNext]_vars

\* the output that re-injection is meant to give: the parsed text with the
\* marker of block k, at its own offset, replaced by the markup of block k
ExpectedHtml(text, clock) ==
    LET ex == Extracted(text, clock)
        parsed == MarkedParse(ex.processed)
    IN [j \in 1..Len(parsed) |->
           IF \E k \in 1..Len(ex.at) : ex.at[k] = j
           THEN ex.blocks[CHOOSE k \in 1..Len(ex.at) : ex.at[k] = j]
           ELSE parsed[j]]

\* C21: re-injection is exact: the output of a render is the parsed text with
\* each block's markup exactly once at the place of its own marker, and text of
\* the model that spells a marker is left as text
C21_ReinjectExact ==
    (last.op = "chunk" /\ markedLoaded)
        => RenderMarkdown(last.buf, now, TRUE, purifyLoaded).html
             = SanitizeStep(ExpectedHtml(last.buf, now), purifyLoaded)


\* the reasoning blocks of a content region that are open
OpenBlocks(html) == {j \in 1..Len(html) : html[j].k = "block" /\ html[j].active}

\* pairs of an open block of the target and an open block of the new render
\* that carry the same id
SameOpen(cur, new) ==
    {m \in OpenBlocks(cur) \X OpenBlocks(new) : cur[m[1]].id = new[m[2]].id}

\* what a merge of the render new into the target cur may leave as post
MergedAsClaimed(cur, new, post, path) ==
    /\ (path = "fast") <=> (SameOpen(cur, new) # {})
    /\ SameOpen(cur, new) # {} =>
         \E m \in SameOpen(cur, new) :
            /\ Len(post) = Len(cur)
            /\ \A k \in 1..Len(cur) :
                  post[k] = IF k = m[1]
                            THEN [cur[k] EXCEPT !.inner = new[m[2]].inner]
                            ELSE cur[k]
    /\ SameOpen(cur, new) = {} =>
         /\ Len(post) = Len(new)
         /\ \A k \in 1..Len(new) :
               [post[k] EXCEPT !.expanded = FALSE] = [new[k] EXCEPT !.expanded = FALSE]

\* C22: a render of a chunk takes the fast path exactly when the target and the
\* new render both hold an open block with the same id; on the fast path only
\* the content of that block changes; otherwise the whole content of the target
\* is the new render (with the expanded flags re-applied); no other bubble changes
C22_FastPathFrame ==
    [][(last'.op = "chunk" /\ currentStreamContent # 0) =>
         /\ \A post \in {dom'[currentStreamContent]}, step \in {last'} :
               MergedAsClaimed(dom[currentStreamContent],
                               RenderMarkdown(step.buf, now, markedLoaded,
                                              purifyLoaded).html,
                               post, step.path)
         /\ \A c \in 1..Len(dom) : c # currentStreamContent => dom'[c] = dom[c]
      ]_vars

\* a chunk was merged on the fast path into a target that also holds text
\* before the open block, and the content of the block grew
C22_Witness ==
    /\ last.op = "chunk" /\ last.path = "fast"
    /\ currentStreamContent # 0
    /\ Len(dom[currentStreamContent]) >= 2
    /\ \E j \in OpenBlocks(dom[currentStreamContent]) :
          /\ dom[currentStreamContent][j].expanded = FALSE
          /\ Len(dom[currentStreamContent][j].inner) >= 1


\* the ids of the blocks of a content region that are marked expanded
ExpandedSet(d) == {id \in BlockIds(d) : IsExpanded(d, id)}

\* C23: the set of expanded blocks of a bubble is changed only by a toggle click
\* and by the merge re-applying ids that were expanded before: after any other
\* step every expanded block was expanded before the step
C23_ExpandedOnlyByToggle ==
    [][\A post \in {dom'}, step \in {last'} :
          step.op # "toggle" =>
             \A b \in 1..Len(dom) : ExpandedSet(post[b]) \subseteq ExpandedSet(dom[b])
      ]_vars


\* ---------------------------------------------------------------- links and code fences
\* a string is a sequence of one-character strings
LowerLetters ==
    <<"a", "b", "c", "d", "e", "f", "g", "h", "i", "j", "k", "l", "m", "n", "o", "p", "q", "r", "s", "t", "u", "v", "w", "x", "y", "z">>

UpperLetters ==
    <<"A", "B", "C", "D", "E", "F", "G", "H", "I", "J", "K", "L", "M", "N", "O", "P", "Q", "R", "S", "T", "U", "V", "W", "X", "Y", "Z">>

\* String.prototype.toLowerCase and toUpperCase on one character
LowerChar(c) ==
    IF \E i \in 1..Len(UpperLetters) : UpperLetters[i] = c
    THEN LowerLetters[CHOOSE i \in 1..Len(UpperLetters) : UpperLetters[i] = c]
    ELSE c

UpperChar(c) ==
    IF \E i \in 1..Len(LowerLetters) : LowerLetters[i] = c
    THEN UpperLetters[CHOOSE i \in 1..Len(LowerLetters) : LowerLetters[i] = c]
    ELSE c

KeepCase(s) == s

ToLowerCase(s) == [i \in 1..Len(s) |-> LowerChar(s[i])]

StartsWith(s, p) == Len(s) >= Len(p) /\ SubSeq(s, 1, Len(p)) = p

\* escapeHTML(str) of a string, character by character
EscapeChar(c) ==
    CASE c = "&" -> <<"&", "a", "m", "p", ";">>
      [] c = "<" -> <<"&", "l", "t", ";">>
      [] c = ">" -> <<"&", "g", "t", ";">>
      [] c = "\"" -> <<"&", "q", "u", "o", "t", ";">>
      [] c = "'" -> <<"&", "#", "3", "9", ";">>
      [] OTHER -> <<c>>

RECURSIVE EscapeString(_)
EscapeString(s) ==
    IF s = <<>> THEN <<>> ELSE EscapeChar(Head(s)) \o EscapeString(Tail(s))

\* const externalProtocols = [...]
ExternalProtocols ==
    {<<"h", "t", "t", "p", ":", "/", "/">>,
     <<"h", "t", "t", "p", "s", ":", "/", "/">>,
     <<"f", "t", "p", ":", "/", "/">>,
     <<"f", "t", "p", "s", ":", "/", "/">>,
     <<"s", "f", "t", "p", ":", "/", "/">>}

\* const appProtocols = [...]
AppProtocols ==
    {<<"m", "a", "i", "l", "t", "o", ":">>,
     <<"t", "e", "l", ":">>,
     <<"s", "m", "s", ":">>,
     <<"w", "h", "a", "t", "s", "a", "p", "p", ":">>,
     <<"s", "k", "y", "p", "e", ":">>}

\* the pieces the URL of a markdown link is put together from
UrlPieces ==
    {<<"h", "t", "t", "p">>,
     <<"H", "T", "T", "P">>,
     <<"h", "t", "t", "p", "s">>,
     <<"F", "t", "p">>,
     <<"f", "t", "p", "s">>,
     <<"s", "f", "t", "p">>,
     <<"m", "a", "i", "l", "t", "o">>,
     <<"t", "e", "l">>,
     <<"T", "E", "L">>,
     <<"s", "m", "s">>,
     <<"w", "h", "a", "t", "s", "a", "p", "p">>,
     <<"s", "k", "y", "p", "e">>,
     <<"j", "a", "v", "a", "s", "c", "r", "i", "p", "t">>,
     <<":">>,
     <<"/", "/">>,
     <<"/">>,
     <<" ">>,
     <<"&">>,
     <<"x">>}

\* renderer.link(href, title, text): the attributes of the anchor it returns
RendererLink(url) ==
    LET safeUrl == EscapeString(url)
        isExternal == \E p \in ExternalProtocols : StartsWith(ToLowerCase(safeUrl), p)
        isAppLink == \E p \in AppProtocols : StartsWith(ToLowerCase(safeUrl), p)
    IN [href |-> safeUrl,
        class |-> IF isExternal THEN "secure-link"
                  ELSE IF isAppLink THEN "app-link" ELSE "",
        external |-> isExternal]

\* ADD_ATTR of the DOMPurify.sanitize call
AddAttr ==
    {"target", "class", "id", "data-code-id", "data-external", "title", "viewBox",
     "fill", "stroke", "stroke-width", "d", "points", "x1", "y1", "x2", "y2", "open",
     "data-thought-id"}

\* the anchor after the sanitize step: attributes off the list are dropped
SanitizeAnchor(a, purify) ==
    IF ~purify THEN a
    ELSE [href |-> a.href,
          class |-> IF "class" \in AddAttr THEN a.class ELSE "",
          external |-> "data-external" \in AddAttr /\ a.external]

InterceptsNever(a) == FALSE

\* e.target.closest('.secure-link') && link.dataset.external === 'true'
Intercepts(a) == a.class = "secure-link" /\ a.external

\* every variable but probe
pipeline == <<markedLoaded, purifyLoaded, now, messages, isLoading, dom,
              currentStreamContent, currentStreamInner, currentFullText, req,
              hist, cancelled, delivered, last, consent, stored, sessionId, history,
                   clearing, modelSelect, reasoningMode>>

RECURSIVE UrlsUpTo(_)
UrlsUpTo(n) ==
    IF n = 0 THEN {<<>>}
    ELSE UrlsUpTo(n - 1) \cup {u \o p : u \in UrlsUpTo(n - 1), p \in UrlPieces}

NoAnchor == [href |-> <<>>, class |-> "", external |-> FALSE]

\* an idle page with the renderer installed and one markdown link in a message
LinkInit ==
    /\ markedLoaded = TRUE
    /\ purifyLoaded \in BOOLEAN
    /\ now = 0
    /\ messages = <<>>
    /\ isLoading = FALSE
    /\ dom = <<>>
    /\ currentStreamContent = 0
    /\ currentStreamInner = 0
    /\ currentFullText = <<>>
    /\ req = [r \in Requests |-> [pc |-> "idle", srv |-> 0, full |-> <<>>]]
    /\ hist = <<>>
    /\ cancelled = {}
    /\ delivered = 0
    /\ last = NoOp
    /\ consent = TRUE
    /\ stored = <<>>
    /\ sessionId = 1
    /\ clearing = 0
    /\ modelSelect = DefaultModel
    /\ reasoningMode = FALSE
    /\ history = OneChat(stored)
    /\ probe \in {[kind |-> "link", url |-> u, stage |-> "text", a |-> NoAnchor,
                   dialog |-> FALSE, opened |-> FALSE, navigated |-> FALSE,
                   ev |-> "none"] : u \in UrlsUpTo(MaxPieces)}

\* marked calls renderer.link, renderMarkdown sanitizes, the bubble shows the anchor
RenderLink ==
    /\ probe.kind = "link" /\ probe.stage = "text"
    /\ probe' = [probe EXCEPT !.stage = "shown", !.ev = "render",
                              !.a = SanitizeAnchor(RendererLink(probe.url), purifyLoaded)]
    /\ UNCHANGED pipeline

\* a click on the anchor: the delegated handler of setupSecureLinkHandler, or
\* the browser following the href
ClickLink ==
    /\ probe.kind = "link" /\ probe.stage = "shown" /\ ~probe.dialog
    /\ IF Intercepts(probe.a)
       THEN probe' = [probe EXCEPT !.dialog = TRUE, !.ev = "click"]
       ELSE probe' = [probe EXCEPT !.navigated = TRUE, !.ev = "click"]
    /\ UNCHANGED pipeline

\* openBtn click: window.open(url, '_blank', 'noopener,noreferrer'); closeModal()
OpenButton ==
    /\ probe.kind = "link" /\ probe.dialog
    /\ probe' = [probe EXCEPT !.opened = TRUE, !.dialog = FALSE, !.ev = "open"]
    /\ UNCHANGED pipeline

\* cancelBtn click: closeModal()
CancelButton ==
    /\ probe.kind = "link" /\ probe.dialog
    /\ probe' = [probe EXCEPT !.dialog = FALSE, !.ev = "cancel"]
    /\ UNCHANGED pipeline

\* click on the overlay itself: closeModal()
OverlayClick ==
    /\ probe.kind = "link" /\ probe.dialog
    /\ probe' = [probe EXCEPT !.dialog = FALSE, !.ev = "overlay"]
    /\ UNCHANGED pipeline

\* keydown Escape: closeModal(), the key listener is removed
EscapeKey ==
    /\ probe.kind = "link" /\ probe.dialog
    /\ probe' = [probe EXCEPT !.dialog = FALSE, !.ev = "escape"]
    /\ UNCHANGED pipeline

LinkNext ==
    \/ RenderLink
    \/ ClickLink
    \/ OpenButton
    \/ CancelButton
    \/ OverlayClick
    \/ EscapeKey

LinkSpec == LinkInit /\ [][LinkNext]_vars

\* the two characters are the same letter, whatever the case
SameLetter(c, d) ==
    \/ c = d
    \/ \E i \in 1..Len(LowerLetters) : {c, d} = {LowerLetters[i], UpperLetters[i]}

\* the string starts, case-insensitively, with one of the prefixes
HasPrefixIn(s, prefixes) ==
    \E p \in prefixes :
        /\ Len(s) >= Len(p)
        /\ \A i \in 1..Len(p) : SameLetter(s[i], p[i])

\* the class of link an anchor was rendered as
LinkClass(a) ==
    IF a.class = "secure-link" /\ a.external THEN "external"
    ELSE IF a.class = "app-link" THEN "app"
    ELSE "internal"

\* C24: every link URL is rendered as exactly one of external, app, internal:
\* external iff it starts, case-insensitively, with an external protocol,
\* otherwise app iff it starts with an app protocol, otherwise internal
C24_LinkClassified ==
    (probe.kind = "link" /\ probe.stage = "shown") =>
        LinkClass(probe.a) =
            IF HasPrefixIn(probe.url, ExternalProtocols) THEN "external"
            ELSE IF HasPrefixIn(probe.url, AppProtocols) THEN "app"
            ELSE "internal"

\* a URL that spells its external protocol in upper case was rendered
C24_Witness ==
    /\ probe.kind = "link" /\ probe.stage = "shown"
    /\ LinkClass(probe.a) = "external"
    /\ Len(probe.url) >= 1 /\ probe.url[1] = "H"

DisplayNames ==
    {<<<<"j", "s">>, <<"J", "a", "v", "a", "S", "c", "r", "i", "p", "t">>>>,
     <<<<"t", "s">>, <<"T", "y", "p", "e", "S", "c", "r", "i", "p", "t">>>>,
     <<<<"p", "y">>, <<"P", "y", "t", "h", "o", "n">>>>,
     <<<<"c", "p", "p">>, <<"C", "+", "+">>>>,
     <<<<"c">>, <<"C">>>>,
     <<<<"c", "s">>, <<"C", "#">>>>,
     <<<<"r", "b">>, <<"R", "u", "b", "y">>>>,
     <<<<"r", "s">>, <<"R", "u", "s", "t">>>>,
     <<<<"s", "h">>, <<"S", "h", "e", "l", "l">>>>,
     <<<<"y", "m", "l">>, <<"Y", "A", "M", "L">>>>,
     <<<<"m", "d">>, <<"M", "a", "r", "k", "d", "o", "w", "n">>>>,
     <<<<"j", "s", "x">>, <<"R", "e", "a", "c", "t", " ", "J", "S", "X">>>>,
     <<<<"t", "s", "x">>, <<"R", "e", "a", "c", "t", " ", "T", "S", "X">>>>}

\* the property names that the object literal inherits from Object.prototype
\* and that are all lower case, so that a lower-cased tag can spell them
InheritedNames ==
    {<<"c", "o", "n", "s", "t", "r", "u", "c", "t", "o", "r">>,
     <<"_", "_", "p", "r", "o", "t", "o", "_", "_">>}

\* what the template literal shows for an inherited member
InheritedText == <<"[native]">>

\* some tags that are longer than MaxTagLen or use other letters
LongTags ==
    {<<"p", "y", "t", "h", "o", "n">>,
     <<"P", "y", "t", "h", "o", "n">>,
     <<"c", "o", "n", "s", "t", "r", "u", "c", "t", "o", "r">>,
     <<"C", "o", "n", "s", "t", "r", "u", "c", "t", "o", "r">>,
     <<"_", "_", "p", "r", "o", "t", "o", "_", "_">>,
     <<"t", "o", "S", "t", "r", "i", "n", "g">>,
     <<"t", "s">>,
     <<"T", "S", "X">>,
     <<"p", "y">>,
     <<"P", "Y">>,
     <<"c", "p", "p">>,
     <<"r", "b">>,
     <<"r", "s">>,
     <<"s", "h">>,
     <<"y", "m", "l">>,
     <<"Y", "M", "L">>,
     <<"m", "d">>,
     <<"t", "e", "x", "t">>,
     <<"r", "u", "s", "t">>,
     <<"j", "s", " ", "x">>}

TagChars == {"j", "s", "J", "c", "x", "S"}

RECURSIVE FirstWord(_)
\* (langArg || 'text').split(/\s+/)[0]
FirstWord(s) ==
    IF s = <<>> \/ Head(s) = " " THEN <<>> ELSE <<Head(s)>> \o FirstWord(Tail(s))

TextTag == <<"t", "e", "x", "t">>

\* a property of Object.prototype is found under this key
Inherited(key) == key \in InheritedNames

\* displayNames[key]: the own property, else the inherited one, else undefined
DisplayNameOf(key) ==
    IF \E e \in DisplayNames : e[1] = key
    THEN (CHOOSE e \in DisplayNames : e[1] = key)[2]
    ELSE IF Inherited(key) THEN InheritedText
    ELSE <<>>

\* language.charAt(0).toUpperCase() + language.slice(1)
Capitalize(language) ==
    IF language = <<>> THEN <<>> ELSE <<UpperChar(Head(language))>> \o Tail(language)

\* getLanguageDisplayName(language)
GetLanguageDisplayName(language) ==
    IF DisplayNameOf(ToLowerCase(language)) # <<>>
    THEN DisplayNameOf(ToLowerCase(language))
    ELSE Capitalize(language)

\* renderer.code(code, language): the text of the .code-language span
RendererCode(langArg) ==
    GetLanguageDisplayName(FirstWord(IF langArg = <<>> THEN TextTag ELSE langArg))

RECURSIVE TagsUpTo(_)
TagsUpTo(n) ==
    IF n = 0 THEN {<<>>}
    ELSE TagsUpTo(n - 1) \cup {t \o <<c>> : t \in TagsUpTo(n - 1), c \in TagChars}

\* an idle page with the renderer installed and one code fence in a message
CodeInit ==
    /\ markedLoaded = TRUE
    /\ purifyLoaded \in BOOLEAN
    /\ now = 0
    /\ messages = <<>>
    /\ isLoading = FALSE
    /\ dom = <<>>
    /\ currentStreamContent = 0
    /\ currentStreamInner = 0
    /\ currentFullText = <<>>
    /\ req = [r \in Requests |-> [pc |-> "idle", srv |-> 0, full |-> <<>>]]
    /\ hist = <<>>
    /\ cancelled = {}
    /\ delivered = 0
    /\ last = NoOp
    /\ consent = TRUE
    /\ stored = <<>>
    /\ sessionId = 1
    /\ clearing = 0
    /\ modelSelect = DefaultModel
    /\ reasoningMode = FALSE
    /\ history = OneChat(stored)
    /\ probe \in {[kind |-> "code", tag |-> t, stage |-> "text", label |-> <<>>] :
                     t \in TagsUpTo(MaxTagLen) \cup LongTags}

\* marked calls renderer.code for the fence
RenderCode ==
    /\ probe.kind = "code" /\ probe.stage = "text"
    /\ probe' = [probe EXCEPT !.stage = "shown", !.label = RendererCode(probe.tag)]
    /\ UNCHANGED pipeline

CodeNext == RenderCode

CodeSpec == CodeInit /\ [][CodeNext]_vars

\* C26: the header label of a code fence is the table's display name when the
\* lower-cased tag is one of the table's abbreviations, and the tag with its
\* first letter upper-cased for every tag that is not in the table
C26_FenceLabel ==
    (probe.kind = "code" /\ probe.stage = "shown" /\ FirstWord(probe.tag) # <<>>) =>
        LET tag == FirstWord(probe.tag)
            E == {e \in DisplayNames : e[1] = ToLowerCase(tag)}
        IN IF E # {}
           THEN \E e \in E : probe.label = e[2]
           ELSE probe.label = <<UpperChar(tag[1])>> \o SubSeq(tag, 2, Len(tag))


\* ---------------------------------------------------------------- transports
\* the content of a fresh bubble after the JSON transport delivered text at
\* time clock: one streamToMessage of the whole text, then the finalizer
JsonOutcome(text, clock) ==
    LET first == StreamToMessage(1, << <<>> >>, text, clock).dom
    IN StreamToMessage(1, first, BakeDurations(text, clock), clock).dom[1]

\* C27: a text delivered as stream chunks ends, after finalize, in the same
\* content of the render target and the same persisted message as the same
\* text delivered as one JSON payload
C27_TransportsAgree ==
    [][\A post \in {dom'}, step \in {last'}, msgs \in {messages'} :
          (step.op = "finalize" /\ step.path # "none" /\ currentStreamContent # 0) =>
             /\ post[currentStreamContent] = JsonOutcome(step.buf, now)
             /\ msgs[Len(msgs)] = [role |-> "assistant",
                                   content |-> BakeDurations(step.buf, now)]
      ]_vars


\* ---------------------------------------------------------------- payloads
\* One request whose server answers with a JSON payload: data.error set or
\* not, data.response a text or missing.
MaxPayload == 2

Payloads ==
    {[kind |-> "payload", error |-> e, hasText |-> TRUE, text |-> t] :
        e \in BOOLEAN, t \in TextsUpTo(MaxPayload)}
    \cup {[kind |-> "payload", error |-> e, hasText |-> FALSE, text |-> <<>>] :
        e \in BOOLEAN}

\* the state after sendMessage, before the fetch of the first server resolves
PayloadInit ==
    /\ markedLoaded \in BOOLEAN
    /\ purifyLoaded \in BOOLEAN
    /\ now = 0
    /\ messages = <<UserMessage>>
    /\ isLoading = TRUE
    /\ dom = <<>>
    /\ currentStreamContent = 0
    /\ currentStreamInner = 0
    /\ currentFullText = <<>>
    /\ req = [r \in Requests |->
                IF r = 1 THEN [pc |-> "fetching", srv |-> 1, full |-> <<>>]
                ELSE [pc |-> "idle", srv |-> 0, full |-> <<>>]]
    /\ hist = <<>>
    /\ cancelled = {}
    /\ delivered = 0
    /\ last = NoOp
    /\ consent \in BOOLEAN
    /\ stored = IF consent THEN <<UserMessage>> ELSE <<>>
    /\ sessionId = 1
    /\ clearing = 0
    /\ modelSelect = DefaultModel
    /\ reasoningMode = FALSE
    /\ history = OneChat(stored)
    /\ probe \in Payloads

\* renderMarkdown(undefined) with marked loaded: text.replace throws a TypeError
\* (with marked missing, escapeHTML(undefined) is '')
RenderThrows(hasText, csc) == ~hasText /\ csc # 0 /\ markedLoaded

\* finalizeStreamingMessage(undefined): fullText.replace throws a TypeError
\* once the early return is passed
BakeThrows(hasText, csc, csi) == ~hasText /\ ~FinalizeReturnsEarly(csc, csi)

\* the JSON branch of callNvidiaAPI on the payload, and what sendMessage does
\* with its outcome
JsonPayload(r) ==
    /\ req[r].pc = "json"
    /\ probe.kind = "payload"
    /\ IF probe.error \/ RenderThrows(probe.hasText, currentStreamContent)
       THEN Failover(r)
       ELSE IF ~BakeThrows(probe.hasText, currentStreamContent, currentStreamInner)
       THEN JsonBody(r, probe.text)
       ELSE /\ delivered < MaxEvents
            /\ delivered' = delivered + 1
            /\ LET s == StreamToMessage(currentStreamContent, dom, <<>>, now)
               IN /\ dom' = s.dom
                  /\ hist' = NoteRender(hist, currentStreamContent, r, s)
            /\ req' = [req EXCEPT ![r] = [pc |-> "failed", srv |-> 0, full |-> <<>>]]
            /\ isLoading' = FALSE
            /\ last' = NoOp
            /\ UNCHANGED <<probe, markedLoaded, purifyLoaded, consent, now, messages,
                           currentStreamContent, currentStreamInner, currentFullText,
                           cancelled, stored, sessionId, history,
                   clearing, modelSelect, reasoningMode>>

PayloadNext ==
    \/ FetchOk(1, TRUE)
    \/ JsonPayload(1)

PayloadSpec == PayloadInit /\ [][PayloadNext]_vars

\* an empty text, or no text field at all
Degenerate(p) == ~p.error /\ (~p.hasText \/ p.text = <<>>)

\* C28: a degenerate payload (empty text, or the text field missing) is rendered
\* as an empty content region without an exception, and the session is
\* finalized normally: the message is recorded and the stream target released
C28_DegenerateRenders ==
    [][\A post \in {dom'}, msgs \in {messages'}, after \in {req'} :
          (req[1].pc = "json" /\ Degenerate(probe) /\ after[1].pc # "json") =>
             /\ after[1].pc = "done"
             /\ post[currentStreamContent] = <<>>
             /\ msgs = Append(messages, [role |-> "assistant", content |-> <<>>])
             /\ currentStreamContent' = 0
      ]_vars


\* ---------------------------------------------------------------- loading flag
\* C29: isLoading is true as long as a request is outstanding (its sendMessage
\* has neither finalized nor reached its error handler); the stop button does
\* not reset it earlier
C29_LoadingWhileOutstanding ==
    \A r \in Requests : req[r].pc \in InFlight => isLoading


\* ---------------------------------------------------------------- chat sessions
\* One response is streamed for a message sent in chat 1 while the user works
\* in the sidebar: opens another chat, starts a new one, deletes one.
AssistantMessage == [role |-> "assistant", content |-> <<Txt>>]

\* chat 1 with the message just sent, and an older chat 2
TwoChats ==
    <<SavedChat(NewChat(1, modelSelect), <<UserMessage>>),
      SavedChat(NewChat(2, modelSelect), <<UserMessage, AssistantMessage>>)>>

\* the state after sendMessage in chat 1 and a first fetch that answered with a
\* stream
SessionInit ==
    /\ markedLoaded \in BOOLEAN
    /\ purifyLoaded \in BOOLEAN
    /\ now = 0
    /\ messages = <<UserMessage>>
    /\ isLoading = TRUE
    /\ dom = << <<>> >>
    /\ currentStreamContent = 1
    /\ currentStreamInner = 1
    /\ currentFullText = <<>>
    /\ req = [r \in Requests |->
                IF r = 1 THEN [pc |-> "reading", srv |-> 1, full |-> <<>>]
                ELSE [pc |-> "idle", srv |-> 0, full |-> <<>>]]
    /\ hist = <<[owner |-> 1, writers |-> {}, finalized |-> 0, unsanitized |-> FALSE]>>
    /\ cancelled = {}
    /\ delivered = 0
    /\ last = NoOp
    /\ consent \in BOOLEAN
    /\ probe = NoProbe
    /\ sessionId = 1
    /\ clearing = 0
    /\ modelSelect = DefaultModel
    /\ reasoningMode = FALSE
    /\ history = IF consent THEN TwoChats ELSE <<>>
    /\ stored = StoredOf(history, 1)

\* 'session_' + Date.now() + random: an id that no chat has
FreshId ==
    LET used == {sessionId} \cup {history[i].id : i \in 1..Len(history)}
    IN 1 + CHOOSE m \in used : \A n \in used : n <= m

\* the message list is emptied: the bubbles are removed from the document; the
\* one that currentStreamContent refers to stays reachable through it
Detached(d, csc) == IF csc = 0 THEN <<>> ELSE <<d[csc]>>

\* the bubbles after the message list was emptied and msgs were rendered into it
Rebuilt(msgs) ==
    LET kept == Detached(dom, currentStreamContent)
        fresh == BotBubbles(msgs, now)
    IN [b \in 1..(Len(kept) + Len(fresh)) |->
           IF b <= Len(kept) THEN kept[b] ELSE fresh[b - Len(kept)]]

RebuiltHist(msgs) ==
    LET kept == Detached(hist, currentStreamContent)
    IN [b \in 1..Len(Rebuilt(msgs)) |->
           IF b <= Len(kept) THEN kept[b]
           ELSE [owner |-> 1, writers |-> {}, finalized |-> 1,
                 unsanitized |-> ~(markedLoaded /\ purifyLoaded)]]

\* ChatSaver.loadChat(chatId), from a click on a conversation of the sidebar
LoadChatId(id) ==
    /\ FindIndex(history, id) # 0
    /\ sessionId' = id
    /\ messages' = StoredOf(history, id)
    /\ stored' = StoredOf(history, id)
    /\ dom' = Rebuilt(StoredOf(history, id))
    /\ hist' = RebuiltHist(StoredOf(history, id))
    /\ currentStreamContent' = IF currentStreamContent = 0 THEN 0 ELSE 1
    /\ currentStreamInner' = IF currentStreamInner = 0 THEN 0 ELSE 1
    /\ modelSelect' = history[FindIndex(history, id)].model
    /\ last' = [NoOp EXCEPT !.op = "load"]
    /\ UNCHANGED <<probe, markedLoaded, purifyLoaded, consent, now, isLoading,
                   currentFullText, req, cancelled, delivered, history,
                   clearing, reasoningMode>>

StartSessionUncapped(h, id, model) ==
    IF ~consent \/ FindIndex(h, id) # 0 THEN h
    ELSE <<NewChat(id, model)>> \o h

\* ChatSaver.startSession(id) while the dropdown shows model: the history
\* afterwards
StartSession(h, id, model) ==
    IF ~consent \/ FindIndex(h, id) # 0 THEN h
    ELSE LET longer == <<NewChat(id, model)>> \o h
         IN IF Len(longer) > HistoryCap THEN SubSeq(longer, 1, Len(longer) - 1)
            ELSE longer

\* switchModel(newModel): reasoning mode afterwards
SwitchedReasoning(newModel) ==
    IF newModel \in ReasoningCapableModels THEN reasoningMode ELSE FALSE

\* createNewSession() after switchModel(selected); it starts clearConversation
\* and does not wait for it
NewSession(selected) ==
    /\ clearing < MaxClears
    /\ messages # <<>> => FreshId \in ChatIds
    /\ LET newSessionId == IF messages = <<>> THEN sessionId ELSE FreshId
       IN /\ sessionId' = newSessionId
          /\ history' = StartSession(history, newSessionId, selected)
          /\ stored' = StoredOf(StartSession(history, newSessionId, selected),
                              newSessionId)
    /\ messages' = <<>>
    /\ dom' = Rebuilt(<<>>)
    /\ hist' = RebuiltHist(<<>>)
    /\ currentStreamContent' = IF currentStreamContent = 0 THEN 0 ELSE 1
    /\ currentStreamInner' = IF currentStreamInner = 0 THEN 0 ELSE 1
    /\ clearing' = clearing + 1
    /\ last' = [NoOp EXCEPT !.op = "new"]

\* the confirm button of the new-chat dialog, which does not open while
\* isLoading: switchModel(selectedModel), createNewSession()
CreateNewSession(selected) ==
    /\ ~isLoading
    /\ modelSelect' = selected
    /\ reasoningMode' = SwitchedReasoning(selected)
    /\ NewSession(selected)
    /\ UNCHANGED <<probe, markedLoaded, purifyLoaded, consent, now, isLoading,
                   currentFullText, req, cancelled, delivered>>

\* ChatSaver.deleteChat(chatId), confirmed in its dialog
DeleteChat(id) ==
    /\ FindIndex(history, id) # 0
    /\ history' = SelectSeq(history, LAMBDA c : c.id # id)
    /\ IF sessionId = id
       THEN /\ FreshId \in ChatIds
            /\ sessionId' = FreshId
            /\ messages' = <<>>
            /\ stored' = <<>>
            /\ dom' = Rebuilt(<<>>)
            /\ hist' = RebuiltHist(<<>>)
            /\ currentStreamContent' = IF currentStreamContent = 0 THEN 0 ELSE 1
            /\ currentStreamInner' = IF currentStreamInner = 0 THEN 0 ELSE 1
       ELSE UNCHANGED <<sessionId, messages, stored, dom, hist,
                        currentStreamContent, currentStreamInner>>
    /\ last' = [NoOp EXCEPT !.op = "delete"]
    /\ UNCHANGED <<probe, markedLoaded, purifyLoaded, consent, now, isLoading,
                   currentFullText, req, cancelled, delivered,
                   clearing, modelSelect, reasoningMode>>

\* clearConversation() after its await: the server answered ok
ClearDone ==
    /\ clearing > 0
    /\ clearing' = clearing - 1
    /\ messages' = <<>>
    /\ dom' = Rebuilt(<<>>)
    /\ hist' = RebuiltHist(<<>>)
    /\ currentStreamContent' = IF currentStreamContent = 0 THEN 0 ELSE 1
    /\ currentStreamInner' = IF currentStreamInner = 0 THEN 0 ELSE 1
    /\ last' = [NoOp EXCEPT !.op = "cleared"]
    /\ UNCHANGED <<probe, markedLoaded, purifyLoaded, consent, now, isLoading,
                   currentFullText, req, cancelled, delivered, stored,
                   sessionId, history, modelSelect, reasoningMode>>

\* clearConversation() after its await: the fetch threw or answered not ok
ClearFail ==
    /\ clearing > 0
    /\ clearing' = clearing - 1
    /\ last' = [NoOp EXCEPT !.op = "notcleared"]
    /\ UNCHANGED <<probe, markedLoaded, purifyLoaded, consent, now, isLoading,
                   messages, dom, hist, currentStreamContent,
                   currentStreamInner, currentFullText, req, cancelled,
                   delivered, stored, sessionId, history, modelSelect,
                   reasoningMode>>

SessionNext ==
    \/ \E c \in ChunkTokens : ReadChunk(1, c)
    \/ ReadDone(1)
    \/ StopGeneration
    \/ \E id \in ChatIds : LoadChatId(id)
    \/ \E m \in {modelSelect} : CreateNewSession(m)
    \/ \E id \in ChatIds : DeleteChat(id)
    \/ ClearDone
    \/ ClearFail

SessionSpec == SessionInit /\ [][SessionNext]_vars

\* the chat in which the message of request 1 was sent
SentIn == 1

\* the chats of a history other than chat id
OtherChats(h, id) == {h[i] : i \in {j \in 1..Len(h) : h[j].id # id}}

\* C30: when the response is finalized it is saved under the chat in which its
\* request was sent: no chat of another id is changed or created by the save,
\* whatever the user opened, started or deleted while the response was in flight
C30_SavedUnderOwnChat ==
    [][\A step \in {last'}, after \in {history'} :
          (step.op = "finalize" /\ step.path # "none") =>
             OtherChats(after, SentIn) = OtherChats(history, SentIn)
      ]_vars

\* ---------------------------------------------------------------- bubbles per request
\* the bot bubbles that addMessageWithTyping created for request r
BubblesOf(r) == {b \in 1..Len(hist) : hist[b].owner = r}

\* C32: a request has at most one bot bubble, also after callNvidiaAPI failed
\* over to the next server: no bubble of a failed attempt is left beside the
\* bubble of the attempt that answered
C32_OneBubblePerRequest ==
    \A r \in Requests : Cardinality(BubblesOf(r)) <= 1


\* ---------------------------------------------------------------- error in the first chunk
\* One streamed response whose chunks may be plain text, tags, or the JSON
\* object of an error.
ErrorTokens == ChunkTokens \cup {ErrorJson}

\* if (isFirstChunk && chunk.trim().startsWith('{') && chunk.includes('"error"'))
LooksLikeError(full, chunk) == full = <<>> /\ chunk = ErrorJson

\* try { if (errObj.error) throw new Error(errObj.error) } catch (e) { }: the
\* throw is inside the try block, and its catch swallows every exception
ErrorEscapes(full, chunk) == LooksLikeError(full, chunk) /\ FALSE

\* one turn of the read loop, with the check of the first chunk
ReadAnyChunk(r, c) ==
    IF ErrorEscapes(req[r].full, c)
    THEN req[r].pc = "reading" /\ Failover(r)
    ELSE ReadChunk(r, c)

ErrorNext ==
    \/ \E c \in ErrorTokens : ReadAnyChunk(1, c)
    \/ ReadDone(1)
    \/ FetchOk(1, FALSE)
    \/ ReadError(1)
    \/ \E t \in RenderClocks : ClockJump(t)

ErrorSpec == RenderInit /\ [][ErrorNext]_vars

\* C33: a streamed response whose first chunk is the JSON object of an error
\* is treated as failed: its text is neither rendered nor finalized (saved as
\* an assistant message)
C33_FirstChunkErrorFails ==
    ~(/\ last.op \in {"chunk", "finalize"}
      /\ last.path # "none"
      /\ last.buf # <<>>
      /\ last.buf[1] = ErrorJson)


\* ---------------------------------------------------------------- the open block
\* C34: the render of any buffer has at most one open reasoning block, and an
\* open block is the last thing of the output: no block and no top-level text
\* follows it
C34_OpenBlockLast ==
    last.op = "chunk" =>
        \A html \in {RenderMarkdown(last.buf, now, markedLoaded, purifyLoaded).html} :
            /\ Cardinality(OpenBlocks(html)) <= 1
            /\ \A j \in OpenBlocks(html) : j = Len(html)


\* ---------------------------------------------------------------- source outside the open block
\* the source text before the opening tag of the open block of a buffer (the
\* whole buffer when no block is open)
BeforeOpen(text) ==
    LET ex == Extracted(text, 0)
        n == Len(ex.blocks)
    IN IF n > 0 /\ ex.blocks[n].active
       THEN SubSeq(text, 1, ex.starts[n] - 1)
       ELSE text

\* C35: when a chunk is rendered through the fast path, the source text before
\* the opening tag of the open block is the same in the buffer rendered before
\* and in the new buffer
C35_FastPathSameSource ==
    [][\A step \in {last'} :
          (step.op = "chunk" /\ step.path = "fast") =>
             BeforeOpen(currentFullText) = BeforeOpen(step.buf)
      ]_vars

\* ---------------------------------------------------------------- new session and its clear request
\* A fresh page on which the user starts new chats and sends messages, while
\* the clear requests that createNewSession started are answered at any time.
ClearNext ==
    \/ \E m \in {modelSelect} : CreateNewSession(m)
    \/ \E r \in Requests : SendMessage(r)
    \/ \E r \in Requests : FetchOk(r, FALSE)
    \/ \E r \in Requests : FetchFail(r)
    \/ \E r \in Requests, c \in ChunkTokens : ReadChunk(r, c)
    \/ \E r \in Requests : ReadDone(r)
    \/ ClearDone
    \/ ClearFail

ClearSpec == Init /\ [][ClearNext]_vars

\* C31: the answer to the clear request that createNewSession started wipes
\* no message and no bubble: whatever the user added to the new session since
\* is still there afterwards
C31_ClearKeepsNewSession ==
    [][\A step \in {last'}, msgs \in {messages'}, post \in {dom'} :
          step.op = "cleared" => (msgs = messages /\ post = dom)]_vars

\* ---------------------------------------------------------------- model and reasoning mode
\* handleModelChange(newModel) of a conversation without statistics:
\* switchModel(newModel). (With statistics it asks first, and on confirm runs
\* switchModel and createNewSession: CreateNewSession above.)
HandleModelChange(newModel) ==
    /\ ~isLoading
    /\ modelSelect' = newModel
    /\ reasoningMode' = SwitchedReasoning(newModel)
    /\ last' = [NoOp EXCEPT !.op = "model"]
    /\ UNCHANGED <<probe, markedLoaded, purifyLoaded, consent, now, messages,
                   isLoading, dom, currentStreamContent, currentStreamInner,
                   currentFullText, req, hist, cancelled, delivered, stored,
                   sessionId, history, clearing>>

\* toggleReasoningMode()
ToggleReasoningMode ==
    /\ ~isLoading
    /\ modelSelect \in ReasoningCapableModels
    /\ reasoningMode' = ~reasoningMode
    /\ last' = [NoOp EXCEPT !.op = "mode"]
    /\ UNCHANGED <<probe, markedLoaded, purifyLoaded, consent, now, messages,
                   isLoading, dom, currentStreamContent, currentStreamInner,
                   currentFullText, req, hist, cancelled, delivered, stored,
                   sessionId, history, clearing, modelSelect>>

\* A fresh page on which the user sends messages, stops them, switches models,
\* toggles the reasoning mode, starts new chats and opens chats of the sidebar.
ModeNext ==
    \/ \E r \in Requests : SendMessage(r)
    \/ StopGeneration
    \/ \E m \in Models : HandleModelChange(m)
    \/ ToggleReasoningMode
    \/ \E m \in Models : CreateNewSession(m)
    \/ \E id \in ChatIds : LoadChatId(id)
    \/ ClearDone
    \/ ClearFail

ModeSpec == Init /\ [][ModeNext]_vars

\* C38: whenever the reasoning mode is on, the selected model is one of the
\* reasoning-capable models
C38_ReasoningNeedsCapableModel ==
    reasoningMode => modelSelect \in ReasoningCapableModels

\* ---------------------------------------------------------------- edit and regenerate
\* A loaded conversation of two questions and two answers; the user edits
\* questions, the regenerated responses are streamed, and the user may press
\* stop.
Conversation == <<UserMessage, AssistantMessage, UserMessage, AssistantMessage>>

\* the new text typed into the edit box
Edited == <<Txt, Txt>>

EditInit ==
    /\ markedLoaded \in BOOLEAN
    /\ purifyLoaded \in BOOLEAN
    /\ now = 0
    /\ messages = Conversation
    /\ isLoading = FALSE
    /\ dom = BotBubbles(Conversation, 0)
    /\ currentStreamContent = 0
    /\ currentStreamInner = 0
    /\ currentFullText = <<>>
    /\ req = [r \in Requests |-> [pc |-> "idle", srv |-> 0, full |-> <<>>]]
    /\ hist = [b \in 1..Len(dom) |->
                 [owner |-> 1, writers |-> {}, finalized |-> 1,
                  unsanitized |-> ~(markedLoaded /\ purifyLoaded)]]
    /\ cancelled = {}
    /\ delivered = 0
    /\ last = NoOp
    /\ consent = TRUE
    /\ stored = Conversation
    /\ sessionId = 1
    /\ clearing = 0
    /\ modelSelect = DefaultModel
    /\ reasoningMode = FALSE
    /\ history = OneChat(stored)
    /\ probe = NoProbe

\* the bot bubbles that precede the bubble of message i: one per assistant
\* message before it
BubblesBefore(msgs, i) ==
    Cardinality({j \in 1..(i - 1) : msgs[j].role = "assistant"})

\* the siblings after the edited bubble are removed; the bubble that
\* currentStreamContent refers to stays reachable through it
Trimmed(d, keep, csc) ==
    LET gone == IF csc > keep THEN <<d[csc]>> ELSE <<>>
    IN [b \in 1..(Len(gone) + keep) |->
           IF b <= Len(gone) THEN gone[b] ELSE d[b - Len(gone)]]

\* submitEditedMessage(messageDiv, newContent, msgIndex) up to its await of
\* callNvidiaAPI, for the bubble of message i (msgIndex = i - 1)
SubmitEditedMessage(r, i) ==
    /\ ~isLoading
    /\ req[r].pc = "idle"
    /\ \A q \in Requests : q < r => req[q].pc # "idle"
    /\ i \in 1..Len(messages)
    /\ messages[i].role = "user"
    /\ messages' = [j \in 1..i |->
                      IF j = i THEN [messages[j] EXCEPT !.content = Edited]
                      ELSE messages[j]]
    /\ LET keep == BubblesBefore(messages, i)
       IN /\ dom' = Trimmed(dom, keep, currentStreamContent)
          /\ hist' = Trimmed(hist, keep, currentStreamContent)
          /\ currentStreamContent' = IF currentStreamContent > keep THEN 1
                                   ELSE currentStreamContent
          /\ currentStreamInner' = IF currentStreamInner > keep THEN 1
                                 ELSE currentStreamInner
    /\ stored' = SaveCurrentChat(messages')
    /\ history' = SaveHistory(messages')
    /\ isLoading' = TRUE
    /\ req' = [req EXCEPT ![r] = [pc |-> "fetching", srv |-> 1, full |-> <<>>]]
    /\ last' = [op |-> "edit", req |-> r, path |-> "none", buf |-> Edited]
    /\ UNCHANGED <<probe, markedLoaded, purifyLoaded, consent, now,
                   currentFullText, cancelled, delivered, sessionId, clearing,
                   modelSelect, reasoningMode>>

EditNext ==
    \/ \E r \in Requests, i \in 1..Len(Conversation) : SubmitEditedMessage(r, i)
    \/ \E r \in Requests : FetchOk(r, FALSE)
    \/ \E r \in Requests, c \in ChunkTokens : ReadChunk(r, c)
    \/ \E r \in Requests : ReadDone(r)
    \/ StopGeneration

EditSpec == EditInit /\ [][EditNext]_vars

\* C39: an edit replaces the content of the edited message and drops the
\* messages after it, and happens only while no response is being generated;
\* the finalized regenerated response is appended as the one assistant reply
\* to the edited message, which is the last message until then
C39_EditRegenerates ==
    [][\A step \in {last'}, after \in {messages'} :
          /\ step.op = "edit" =>
                /\ ~isLoading
                /\ Len(after) <= Len(messages)
                /\ after[Len(after)] = [role |-> "user", content |-> Edited]
                /\ SubSeq(after, 1, Len(after) - 1)
                      = SubSeq(messages, 1, Len(after) - 1)
          /\ (step.op = "finalize" /\ step.path # "none") =>
                /\ messages # <<>>
                /\ messages[Len(messages)] = [role |-> "user", content |-> Edited]
                /\ Len(after) = Len(messages) + 1
                /\ after[Len(after)].role = "assistant"
                /\ SubSeq(after, 1, Len(messages)) = messages
      ]_vars

\* ---------------------------------------------------------------- storage consent
\* A fresh page with the consent popup not answered yet: the user chats,
\* starts new chats, and accepts or declines the storage of the history.

\* handleConsent(accepted), from the buttons of the consent popup; the popup is
\* shown at start and from the sidebar while the consent is not 'accepted'.
\* enableHistory saves the current messages, or restores the stored chat of
\* the session
HandleConsent(accepted) ==
    /\ ~consent
    /\ consent' = accepted
    /\ IF accepted /\ messages # <<>>
       THEN /\ stored' = messages
            /\ history' = SavedHistory(TRUE, history, messages)
            /\ UNCHANGED <<messages, dom, hist, currentStreamContent,
                           currentStreamInner, modelSelect>>
       ELSE IF accepted /\ StoredOf(history, sessionId) # <<>>
       THEN /\ messages' = StoredOf(history, sessionId)
            /\ stored' = StoredOf(history, sessionId)
            /\ dom' = Rebuilt(StoredOf(history, sessionId))
            /\ hist' = RebuiltHist(StoredOf(history, sessionId))
            /\ currentStreamContent' = IF currentStreamContent = 0 THEN 0 ELSE 1
            /\ currentStreamInner' = IF currentStreamInner = 0 THEN 0 ELSE 1
            /\ modelSelect' = history[FindIndex(history, sessionId)].model
            /\ UNCHANGED history
       ELSE UNCHANGED <<messages, stored, history, dom, hist,
                        currentStreamContent, currentStreamInner, modelSelect>>
    /\ last' = [NoOp EXCEPT !.op = "consent"]
    /\ UNCHANGED <<probe, markedLoaded, purifyLoaded, now, isLoading,
                   currentFullText, req, cancelled, delivered, sessionId,
                   clearing, reasoningMode>>

\* ChatSaver.updateChatStats(this.sessionId, this.conversationStats), when the
\* statistics of the conversation arrived
UpdateChatStats ==
    /\ history' = [i \in 1..Len(history) |->
                      IF i = FindIndex(history, sessionId)
                      THEN [history[i] EXCEPT !.stats = 1]
                      ELSE history[i]]
    /\ last' = [NoOp EXCEPT !.op = "stats"]
    /\ UNCHANGED <<probe, markedLoaded, purifyLoaded, consent, now, messages,
                   isLoading, dom, currentStreamContent, currentStreamInner,
                   currentFullText, req, hist, cancelled, delivered, stored,
                   sessionId, clearing, modelSelect, reasoningMode>>

\* ChatSaver.generateTitle(chatId, ...) after its await: a title arrived for the
\* chat whose saveCurrentChat asked for one
GenerateTitle(chatId) ==
    /\ FindIndex(history, chatId) # 0
    /\ history[FindIndex(history, chatId)].isGeneratingTitle
    /\ history' = [i \in 1..Len(history) |->
                      IF i = FindIndex(history, chatId)
                      THEN [history[i] EXCEPT !.title = "ai",
                                              !.isGeneratingTitle = FALSE]
                      ELSE history[i]]
    /\ last' = [NoOp EXCEPT !.op = "title"]
    /\ UNCHANGED <<probe, markedLoaded, purifyLoaded, consent, now, messages,
                   isLoading, dom, currentStreamContent, currentStreamInner,
                   currentFullText, req, hist, cancelled, delivered, stored,
                   sessionId, clearing, modelSelect, reasoningMode>>

ConsentInit ==
    /\ markedLoaded \in BOOLEAN
    /\ purifyLoaded \in BOOLEAN
    /\ now = 0
    /\ messages = <<>>
    /\ isLoading = FALSE
    /\ dom = <<>>
    /\ currentStreamContent = 0
    /\ currentStreamInner = 0
    /\ currentFullText = <<>>
    /\ req = [r \in Requests |-> [pc |-> "idle", srv |-> 0, full |-> <<>>]]
    /\ hist = <<>>
    /\ cancelled = {}
    /\ delivered = 0
    /\ last = NoOp
    /\ consent = FALSE
    /\ stored = <<>>
    /\ sessionId = 1
    /\ clearing = 0
    /\ modelSelect = DefaultModel
    /\ reasoningMode = FALSE
    /\ history = <<>>
    /\ probe = NoProbe

ConsentNext ==
    \/ \E accepted \in BOOLEAN : HandleConsent(accepted)
    \/ \E r \in Requests : SendMessage(r)
    \/ \E r \in Requests : FetchOk(r, FALSE)
    \/ \E r \in Requests, c \in {Txt} : ReadChunk(r, c)
    \/ \E r \in Requests : ReadDone(r)
    \/ \E m \in {modelSelect} : CreateNewSession(m)
    \/ ClearDone
    \/ ClearFail
    \/ UpdateChatStats
    \/ \E id \in ChatIds : GenerateTitle(id)

ConsentSpec == ConsentInit /\ [][ConsentNext]_vars

\* C36: the stored history changes only in steps that end with the consent
\* accepted: while the consent is unset or declined, saveCurrentChat,
\* startSession, updateChatStats and generateTitle add and modify no chat
C36_WritesNeedConsent ==
    [][\A after \in {history'} : after # history => consent']_vars

\* a response was finalized, and so saveCurrentChat called, without consent
C36_Witness ==
    /\ ~consent
    /\ last.op = "finalize"
    /\ last.path # "none"
    /\ messages # <<>>

\* ---------------------------------------------------------------- a full history
\* A user with a long history: the chat just started and HistoryCap - 1 or
\* HistoryCap - 2 older conversations, which have the ids -1, -2, ... here.
\* The user sends a message, starts new chats, and opens and deletes chats:
\* those of this visit, and the newest and the oldest of the earlier ones.
OldChat(n) ==
    [id |-> -n, title |-> "ai", messages |-> <<UserMessage, AssistantMessage>>,
     model |-> DefaultModel, stats |-> 1, isGeneratingTitle |-> FALSE]

\* the history after startSession(1) on top of n older chats, newest first
LongHistory(n) ==
    [i \in 1..(n + 1) |->
        IF i = 1 THEN NewChat(1, DefaultModel) ELSE OldChat(i - 1)]

HistoryInit ==
    /\ markedLoaded = TRUE
    /\ purifyLoaded = TRUE
    /\ now = 0
    /\ messages = <<>>
    /\ isLoading = FALSE
    /\ dom = <<>>
    /\ currentStreamContent = 0
    /\ currentStreamInner = 0
    /\ currentFullText = <<>>
    /\ req = [r \in Requests |-> [pc |-> "idle", srv |-> 0, full |-> <<>>]]
    /\ hist = <<>>
    /\ cancelled = {}
    /\ delivered = 0
    /\ last = NoOp
    /\ consent = TRUE
    /\ stored = <<>>
    /\ sessionId = 1
    /\ clearing = 0
    /\ modelSelect = DefaultModel
    /\ reasoningMode = FALSE
    /\ history \in {LongHistory(HistoryCap - 2), LongHistory(HistoryCap - 1)}
    /\ probe = NoProbe

HistoryNext ==
    \/ SendMessage(1)
    \/ FetchOk(1, FALSE)
    \/ ReadDone(1)
    \/ \E m \in {modelSelect} : CreateNewSession(m)
    \/ ClearDone
    \/ ClearFail
    \/ \E id \in ChatIds \cup {-1, 1 - HistoryCap} : LoadChatId(id)
    \/ \E id \in ChatIds \cup {-1, 1 - HistoryCap} : DeleteChat(id)

HistorySpec == HistoryInit /\ [][HistoryNext]_vars

\* C37: the stored history never holds more than 100 chats and never two
\* chats with the same session id
C37_HistoryBounded ==
    /\ Len(history) <= HistoryCap
    /\ \A i, j \in 1..Len(history) : history[i].id = history[j].id => i = j

\* a new chat was started on top of a full history
C37_Witness ==
    /\ last.op = "new"
    /\ sessionId # 1
    /\ Len(history) = HistoryCap
    /\ history[Len(history)].id # 1 - HistoryCap

====
